---- MODULE Spec2Model ----
(***************************************************************************)
(* DeepQLearner of scripts/intrinsic/q_compressor_network.py: a deep       *)
(* Q-network with an autoencoder branch whose reconstruction error (the    *)
(* compression loss) is added to the TD target and biases exploration.     *)
(*                                                                         *)
(* The model follows the Python statements of the class.  Numeric values   *)
(* are kept on integer grids: probabilities and epsilon in units of 1/Den, *)
(* the discount as DiscountNum/Den, losses, rewards and Q-values as        *)
(* naturals.  The network weights are one abstract value per network; the  *)
(* optimizer step (lasagne, outside the class) may produce any weights.    *)
(* The compression loss of an input is a mean of halved squares seen       *)
(* through a dropout layer, so each evaluation yields some value >= 0.     *)
(***************************************************************************)
EXTENDS Integers, Sequences, FiniteSets, TLC

\* ---- bounds of the model ----
NumActions == 2
NumStates == 2
BatchSize == 2
MaxLoss == 2
MaxReward == 1
MaxParam == 1
MaxFreeze == 2
MaxTrain == 3
Den == 2
DiscountNum == 1

Actions == 0..(NumActions - 1)
States == 0..(NumStates - 1)
Losses == 0..MaxLoss
Rewards == 0..MaxReward
ParamVals == 0..MaxParam
Batch == 1..BatchSize
Epsilons == 0..Den
Draws == 0..(Den - 1)

NoSnapshot == -1
NoParams == -1

ActionSelections == {"epsilon-greedy", "softmax", "bogus"}
BatchAccumulators == {"sum", "mean", "bogus"}
UpdateRules == {"deepmind_rmsprop", "rmsprop", "sgd", "bogus"}
NetworkTypes == {"large_network", "bogus"}

VARIABLES phase, freeze_interval, choose_action, params, next_params,
          max_compression_loss, update_counter, last, first_params,
          manual_reset, td

vars == <<phase, freeze_interval, choose_action, params, next_params,
          max_compression_loss, update_counter, last, first_params,
          manual_reset, td>>

\* ---- pure helpers ----

\* Variant: the running maximum is overwritten by the latest value.
PyMaxLatest(a, b) == b

\* Python's max(a, b): the first argument unless the second is greater.
PyMax(a, b) == IF b > a THEN b ELSE a

\* numpy float division num / den: 0/0 is nan, x/0 is inf.
Divide(num, den) ==
    IF den = 0
    THEN [kind |-> IF num = 0 THEN "nan" ELSE "inf", num |-> num, den |-> den]
    ELSE [kind |-> "finite", num |-> num, den |-> den]

\* r < epsilon + component, r and epsilon in units of 1/Den.  Any
\* comparison with nan is False.
RandBelow(r, epsilon, component) ==
    CASE component.kind = "nan" -> FALSE
      [] component.kind = "inf" -> TRUE
      [] OTHER -> r * component.den < epsilon * component.den + component.num * Den

\* tau = epsilon + component is a finite number greater than 0.
TauPositive(epsilon, component) ==
    /\ component.kind = "finite"
    /\ epsilon * component.den + component.num * Den > 0

\* Output of the value network with weights p on observation s: one value
\* per action.
QNet(p, s) == [a \in Actions |-> (p + 1) * (a + 1) + 2 * s * (NumActions - a)]

\* T.max(next_q_vals, axis=1) for one row.
MaxOver(q) == CHOOSE m \in {q[a] : a \in Actions} : \A a \in Actions : q[a] <= m

\* np.argmax: index of the first maximal entry.
ArgMax(q) == CHOOSE a \in Actions :
                 /\ q[a] = MaxOver(q)
                 /\ \A b \in Actions : q[b] = MaxOver(q) => a <= b

\* Variant: the terminal flag is ignored, every example bootstraps.
TargetIgnoringTerminals(reward, compression_loss, terminal, next_q) ==
    Den * (reward + compression_loss) + DiscountNum * MaxOver(next_q)

\* The TD target of one example, in units of 1/Den.
Target(reward, compression_loss, terminal, next_q) ==
    Den * (reward + compression_loss)
        + (1 - terminal) * DiscountNum * MaxOver(next_q)

\* The weights next_q_vals is computed from: those of next_l_out when the
\* learner has one, else those of l_out.
NextQParams(live, snapshot, fi) == IF fi > 0 THEN snapshot ELSE live

\* ---- construction ----

Init ==
    /\ phase = "new"
    /\ freeze_interval = 0
    /\ choose_action = "unset"
    /\ params = NoParams
    /\ next_params = NoSnapshot
    /\ max_compression_loss = 0
    /\ update_counter = 0
    /\ last = [op |-> "none"]
    /\ first_params = NoParams
    /\ manual_reset = FALSE
    /\ td = [stage |-> "none"]

\* Variant: an unknown accumulator falls back to the mean.
InitErrorLenient(action_selection, network_type, batch_accumulator, update_rule) ==
    IF action_selection \notin {"epsilon-greedy", "softmax"}
    THEN "Unrecognized action selection"
    ELSE IF network_type # "large_network"
    THEN "Unrecognized network"
    ELSE IF update_rule \notin {"deepmind_rmsprop", "rmsprop", "sgd"}
    THEN "Unrecognized update"
    ELSE "ok"

\* The first check of __init__ that fails, or "ok".
InitError(action_selection, network_type, batch_accumulator, update_rule) ==
    IF action_selection \notin {"epsilon-greedy", "softmax"}
    THEN "Unrecognized action selection"
    ELSE IF network_type # "large_network"
    THEN "Unrecognized network"
    ELSE IF batch_accumulator \notin {"sum", "mean"}
    THEN "Bad accumulator"
    ELSE IF update_rule \notin {"deepmind_rmsprop", "rmsprop", "sgd"}
    THEN "Unrecognized update"
    ELSE "ok"

Construct ==
    /\ phase = "new"
    /\ \E action_selection \in ActionSelections, network_type \in NetworkTypes,
          batch_accumulator \in BatchAccumulators, update_rule \in UpdateRules,
          fi \in 0..MaxFreeze, w \in ParamVals :
         LET err == InitError(action_selection, network_type,
                              batch_accumulator, update_rule)
             call == [op |-> "__init__",
                      action_selection |-> action_selection,
                      network_type |-> network_type,
                      batch_accumulator |-> batch_accumulator,
                      update_rule |-> update_rule,
                      freeze_interval |-> fi,
                      error |-> err]
         IN  /\ last' = call
             /\ IF err = "ok"
                THEN /\ phase' = "ready"
                     /\ freeze_interval' = fi
                     /\ choose_action' = action_selection
                     /\ params' = w
                     /\ next_params' = IF fi > 0 THEN w ELSE NoSnapshot
                ELSE /\ phase' = "failed"
                     /\ UNCHANGED <<freeze_interval, choose_action, params,
                                    next_params>>
    /\ max_compression_loss' = 0
    /\ update_counter' = 0
    /\ UNCHANGED <<first_params, manual_reset, td>>

\* ---- reset_q_hat ----

\* get_all_param_values(l_out) / set_all_param_values(next_l_out, ...): the
\* values the snapshot holds afterwards.
CopiedParamValues(live) == live

ResetQHat ==
    /\ phase = "ready"
    /\ IF freeze_interval > 0
       THEN /\ next_params' = CopiedParamValues(params)
            /\ manual_reset' = TRUE
            /\ last' = [op |-> "reset_q_hat", error |-> "ok"]
       ELSE /\ next_params' = next_params
            /\ manual_reset' = manual_reset
            /\ last' = [op |-> "reset_q_hat", error |-> "AttributeError"]
    /\ UNCHANGED <<phase, freeze_interval, choose_action, params,
                   max_compression_loss, update_counter, first_params, td>>

\* ---- train ----

\* Variant: the refresh is decided on the counter after the increment.
RefreshDueAfterIncrement(counter, fi) == fi > 0 /\ (counter + 1) % fi = 0

\* Variant: every train call of a learner with a snapshot refreshes it.
RefreshDueAlways(counter, fi) == fi > 0

\* The guard of the reset_q_hat call inside train.
RefreshDue(counter, fi) == fi > 0 /\ counter % fi = 0

\* Variant: train folds the compression loss of the batch into the maximum.
TrainEffectsFoldingLoss(live, snapshot, maxloss, counter, fi, new_live, batch_loss) ==
    [params |-> new_live,
     next_params |-> IF RefreshDue(counter, fi)
                     THEN CopiedParamValues(live) ELSE snapshot,
     refreshed |-> RefreshDue(counter, fi),
     params_at_target |-> live,
     max_compression_loss |-> PyMax(maxloss, batch_loss),
     update_counter |-> counter + 1]

\* Variant: the snapshot shares its weights with the live network, so the
\* updates of _train reach it.
TrainEffectsAliased(live, snapshot, maxloss, counter, fi, new_live, batch_loss) ==
    [params |-> new_live,
     next_params |-> IF fi > 0 THEN new_live ELSE snapshot,
     refreshed |-> RefreshDue(counter, fi),
     params_at_target |-> live,
     max_compression_loss |-> maxloss,
     update_counter |-> counter + 1]

\* What one train call leaves in the learner: the snapshot after the
\* conditional reset_q_hat, the weights after the updates of _train (which
\* name only the parameters of l_out and of the compressor), the counter.
TrainEffects(live, snapshot, maxloss, counter, fi, new_live, batch_loss) ==
    [params |-> new_live,
     next_params |-> IF RefreshDue(counter, fi)
                     THEN CopiedParamValues(live) ELSE snapshot,
     refreshed |-> RefreshDue(counter, fi),
     \* _train evaluates target and loss on the weights before its updates
     params_at_target |-> live,
     max_compression_loss |-> maxloss,
     update_counter |-> counter + 1]

Train ==
    /\ phase = "ready"
    /\ update_counter < MaxTrain
    \* The batch reaches the learner through the loss of _train alone: the
    \* weights after the optimizer step and the batch's compression loss.
    /\ \E compression_loss \in Losses, new_live \in ParamVals :
         LET eff == TrainEffects(params, next_params, max_compression_loss,
                                 update_counter, freeze_interval, new_live,
                                 compression_loss)
         IN  /\ params' = eff.params
             /\ next_params' = eff.next_params
             /\ max_compression_loss' = eff.max_compression_loss
             /\ update_counter' = eff.update_counter
             /\ last' = [op |-> "train",
                         compression_loss |-> compression_loss,
                         pre_params |-> params,
                         pre_counter |-> update_counter,
                         refreshed |-> eff.refreshed,
                         target_params |-> NextQParams(eff.params_at_target,
                                                       eff.next_params,
                                                       freeze_interval),
                         error |-> "ok"]
    /\ first_params' = IF update_counter = 0 /\ freeze_interval > 0
                       THEN params ELSE first_params
    /\ UNCHANGED <<phase, freeze_interval, choose_action, manual_reset, td>>

\* ---- action selection ----

\* compression_loss(state) and q_vals_and_compression_loss(state): fold the
\* loss of this state into the running maximum.
FoldedMax(maxloss, loss) == PyMax(maxloss, loss)

\* Variant: the division reads the maximum held before this state's loss
\* was folded in.
CompressionLossComponentStale(maxloss, loss) == Divide(loss, maxloss)

\* compression_loss(state) / self.max_compression_loss: the division reads
\* the maximum after the loss of this state was folded into it.
CompressionLossComponent(maxloss, loss) == Divide(loss, FoldedMax(maxloss, loss))

ChooseActionEpsilonGreedy ==
    /\ phase = "ready"
    /\ choose_action = "epsilon-greedy"
    \* the observation enters through its compression loss alone
    /\ \E epsilon \in Epsilons, loss \in Losses, r \in Draws :
         LET component == CompressionLossComponent(max_compression_loss, loss)
             random == RandBelow(r, epsilon, component)
         IN  /\ max_compression_loss' = FoldedMax(max_compression_loss, loss)
             \* rng.randint is drawn in the random branch only; the greedy
             \* branch calls self.q_vals, which is no attribute of the class
             /\ \E randint \in (IF random THEN Actions ELSE {-1}) :
                  last' = [op |-> "choose_action_epsilon_greedy",
                           epsilon |-> epsilon,
                           loss |-> loss,
                           prev_max |-> max_compression_loss,
                           component |-> component,
                           r |-> r,
                           branch |-> IF random THEN "random" ELSE "greedy",
                           error |-> IF random THEN "ok" ELSE "AttributeError",
                           action |-> randint]
    /\ UNCHANGED <<phase, freeze_interval, choose_action, params, next_params,
                   update_counter, first_params, manual_reset, td>>

\* weightedRandomChoice(weights) of network_util: some key of positive
\* weight; with nan or infinite weights it may also fail.
WeightedRandomChoice(well_defined) ==
    IF well_defined THEN [error : {"ok"}, action : Actions]
    ELSE [error : {"ok"}, action : Actions]
             \cup {[error |-> "Exception", action |-> -1]}

ChooseActionSoftmax ==
    /\ phase = "ready"
    /\ choose_action = "softmax"
    \* the observation enters through its compression loss and through the
    \* weights handed to weightedRandomChoice
    /\ \E epsilon \in Epsilons, loss \in Losses :
         LET component == CompressionLossComponent(max_compression_loss, loss)
         IN  /\ max_compression_loss' = FoldedMax(max_compression_loss, loss)
             /\ \E out \in WeightedRandomChoice(TauPositive(epsilon, component)) :
                  last' = [op |-> "choose_action_softmax",
                           loss |-> loss,
                           prev_max |-> max_compression_loss,
                           component |-> component,
                           error |-> out.error,
                           action |-> out.action]
    /\ UNCHANGED <<phase, freeze_interval, choose_action, params, next_params,
                   update_counter, first_params, manual_reset, td>>

Next ==
    \/ Construct
    \/ Train
    \/ ChooseActionEpsilonGreedy
    \/ ChooseActionSoftmax
    \/ ResetQHat

Spec == Init /\ [][Next]_vars

\* ---- the TD target of _train, as a function of its inputs ----

InitTarget ==
    /\ phase = "ready"
    /\ freeze_interval \in 0..MaxFreeze
    /\ choose_action = "epsilon-greedy"
    /\ params \in ParamVals
    /\ next_params \in (IF freeze_interval > 0 THEN ParamVals ELSE {NoSnapshot})
    /\ max_compression_loss = 0
    /\ update_counter = 0
    /\ last = [op |-> "__init__"]
    /\ first_params = NoParams
    /\ manual_reset = FALSE
    /\ td \in [stage : {"inputs"}, rewards : [Batch -> Rewards],
               next_states : [Batch -> States], terminals : [Batch -> {0, 1}],
               compression_loss : Losses]

EvalTarget ==
    /\ td.stage = "inputs"
    /\ td' = [stage |-> "target",
              rewards |-> td.rewards,
              next_states |-> td.next_states,
              terminals |-> td.terminals,
              compression_loss |-> td.compression_loss,
              target |-> [i \in Batch |->
                  Target(td.rewards[i], td.compression_loss, td.terminals[i],
                         QNet(NextQParams(params, next_params, freeze_interval),
                              td.next_states[i]))]]
    /\ UNCHANGED <<phase, freeze_interval, choose_action, params, next_params,
                   max_compression_loss, update_counter, last, first_params,
                   manual_reset>>

NextTarget == EvalTarget

SpecTarget == InitTarget /\ [][NextTarget]_vars

\* ---- claims ----

ChooseOps == {"choose_action_epsilon_greedy", "choose_action_softmax"}

\* C1 (as stated): with freeze_interval = k > 0, right after the k-th train
\* call on a fresh learner the snapshot equals the live weights as they were
\* when the k-th call began.
C1_SnapshotOfKthCall ==
    (/\ last.op = "train"
     /\ ~manual_reset
     /\ freeze_interval > 0
     /\ update_counter = freeze_interval)
        => next_params = last.pre_params

\* C1 (amended): with freeze_interval = k > 0, after 1 to k train calls on a
\* fresh learner the snapshot equals the live weights as they were when the
\* first train call began; the gradient updates of those calls leave it alone.
C1_SnapshotOfFirstCall ==
    (/\ ~manual_reset
     /\ freeze_interval > 0
     /\ update_counter >= 1
     /\ update_counter <= freeze_interval)
        => next_params = first_params

C1_Witness ==
    /\ last.op = "train"
    /\ ~manual_reset
    /\ freeze_interval = 2
    /\ update_counter = 2
    /\ next_params = first_params
    /\ last.pre_params # first_params
    /\ params # next_params

\* C2: max_compression_loss starts at 0 and never decreases, and every bias
\* computation divides by a value at least as large as the maximum held
\* before it.
C2_MaxMonotone ==
    /\ max_compression_loss = 0
    /\ [][/\ max_compression_loss' >= max_compression_loss
          /\ last'.op \in ChooseOps =>
                last'.component.den >= max_compression_loss]_vars

C2_Witness ==
    /\ last.op \in ChooseOps
    /\ last.prev_max > 0
    /\ last.loss < last.prev_max
    /\ last.component.den = last.prev_max
    /\ max_compression_loss = last.prev_max

\* C3: a constructor call with an unrecognized action-selection, accumulator
\* or update-rule identifier ends in an error and leaves no learner, and no
\* later call on a constructed learner reports a configuration error.
ConfigErrors == {"Unrecognized action selection", "Unrecognized network",
                 "Bad accumulator", "Unrecognized update"}

C3_FailFast ==
    /\ (/\ last.op = "__init__"
        /\ \/ last.action_selection \notin {"epsilon-greedy", "softmax"}
           \/ last.batch_accumulator \notin {"sum", "mean"}
           \/ last.update_rule \notin {"deepmind_rmsprop", "rmsprop", "sgd"})
          => /\ phase = "failed"
             /\ last.error \in ConfigErrors
             /\ choose_action = "unset"
             /\ params = NoParams
    /\ (phase = "ready" /\ last.op # "__init__") => last.error \notin ConfigErrors

C3_Witness ==
    /\ phase = "failed"
    /\ last.op = "__init__"
    /\ last.action_selection = "softmax"
    /\ last.network_type = "large_network"
    /\ last.batch_accumulator = "bogus"
    /\ last.error = "Bad accumulator"

\* C4 (as stated): in epsilon-greedy selection with max_compression_loss = 0
\* at the division the bias counts as 0, so the branch is random exactly when
\* r < epsilon, and with epsilon = 1 the call returns a random action index.
C4_ZeroMaxBiasIsZero ==
    (last.op = "choose_action_epsilon_greedy" /\ last.component.den = 0)
        => /\ (last.branch = "random") <=> (last.r < last.epsilon)
           /\ last.epsilon = Den =>
                 (last.branch = "random" /\ last.action \in Actions)

\* C5 (as stated): every choose_action_epsilon_greedy call returns an action
\* index in range, a random one when r < epsilon + bias and otherwise the
\* lowest index maximizing the value vector of some observation.
C5_ReturnsActionIndex ==
    last.op = "choose_action_epsilon_greedy"
        => /\ last.error = "ok"
           /\ last.action \in Actions
           /\ (last.branch = "random")
                 <=> RandBelow(last.r, last.epsilon, last.component)
           /\ last.branch = "greedy" =>
                 \E s \in States : last.action = ArgMax(QNet(params, s))

\* C6 (as stated): after a train call max_compression_loss is at least the
\* compression loss of that batch.
C6_TrainFeedsMax ==
    last.op = "train" => max_compression_loss >= last.compression_loss

\* C6 (amended): a train call leaves max_compression_loss unchanged.
C6_TrainKeepsMax ==
    [][last'.op = "train" => max_compression_loss' = max_compression_loss]_vars

C6_Witness ==
    /\ last.op = "train"
    /\ last.compression_loss > max_compression_loss
    /\ max_compression_loss > 0

\* C7: each train call adds one to update_counter and nothing else changes
\* it; a train call refreshes the snapshot iff freeze_interval > 0 and the
\* counter before the call is a multiple of it; a refreshing call computes
\* its target from the live weights before its update; other calls keep the
\* snapshot.
C7_RefreshSchedule ==
    [][/\ last'.op = "train" =>
            /\ update_counter' = update_counter + 1
            /\ last'.refreshed <=>
                  (freeze_interval > 0 /\ update_counter % freeze_interval = 0)
            /\ last'.refreshed =>
                  (next_params' = params /\ last'.target_params = params)
            /\ ~last'.refreshed => next_params' = next_params
            /\ freeze_interval = 0 =>
                  (~last'.refreshed /\ next_params' = NoSnapshot)
       /\ last'.op # "train" => update_counter' = update_counter]_vars

C7_Witness ==
    /\ last.op = "train"
    /\ freeze_interval = 2
    /\ last.pre_counter = 2
    /\ last.refreshed
    /\ next_params = last.pre_params
    /\ params # next_params
    /\ first_params # next_params

C9_SnapshotIsACopy ==
    [][/\ last'.op \in ChooseOps =>
            (next_params' = next_params /\ params' = params)
       /\ last'.op = "reset_q_hat" =>
            /\ params' = params
            /\ freeze_interval > 0 => next_params' = params
       /\ last'.op = "train" =>
            next_params' = IF last'.refreshed THEN params ELSE next_params
       /\ (next_params' # next_params /\ last'.op # "__init__") =>
            /\ \/ last'.op = "reset_q_hat"
               \/ last'.op = "train" /\ last'.refreshed
            /\ next_params' = params]_vars

C9_Witness ==
    /\ last.op = "train"
    /\ freeze_interval > 0
    /\ ~last.refreshed
    /\ params # last.pre_params
    /\ next_params = last.pre_params

\* C10: a bias computed with a positive maximum lies in [0, 1]; it is 1 when
\* the loss of the state is positive and at least the maximum held before,
\* and then epsilon-greedy takes the random branch.
C10_BiasInUnitInterval ==
    (last.op \in ChooseOps /\ last.component.den > 0)
        => /\ last.component.kind = "finite"
           /\ 0 <= last.component.num
           /\ last.component.num <= last.component.den
           /\ (last.loss > 0 /\ last.loss >= last.prev_max) =>
                 /\ last.component.num = last.component.den
                 /\ last.op = "choose_action_epsilon_greedy" =>
                       (last.branch = "random" /\ last.action \in Actions)

C10_Witness ==
    /\ last.op = "choose_action_epsilon_greedy"
    /\ last.prev_max > 0
    /\ last.loss > last.prev_max
    /\ last.epsilon = 0
    /\ last.r = Den - 1
    /\ last.branch = "random"
====
